---- MODULE Spec2Model ----
(***************************************************************************)
(* Model of the RecipeGenerator component (src/src/components/             *)
(* RecipeGenerator.tsx): the React state recipes / isGenerating, the       *)
(* Generate button and the asynchronous handler generateRecipes.           *)
(*                                                                         *)
(* A text is a sequence of symbols.  A symbol is one character (a          *)
(* backtick, a bracket, a blank, a quote, ...) or a word: a run of         *)
(* characters holding no backtick, blank, quote or JSON punctuation        *)
(* ("json", "Vegan", "tags").                                              *)
(* A JSON value is a record [t |-> kind, s, a, m]: s the symbols of a      *)
(* string or number, a the elements of an array, m the members of an       *)
(* object, each a <<name, value>> pair.                                    *)
(***************************************************************************)
EXTENDS Integers, Sequences, FiniteSets, TLC

\* ------------------------------------------------------------ model sizes
MaxOutstanding == 2  \* generateRecipes calls started and not finished, at once
MaxRecipes == 2     \* records in a generated JSON array

\* ----------------------------------------------------------------- symbols
BT == "backtick"    \* the character U+0060
QUOTE == "\""
WhiteSpace == {" ", "\n"}
NumberWords == {"5"}

\* ------------------------------------------------------------- JSON values
JValue(t, s, a, m) == [t |-> t, s |-> s, a |-> a, m |-> m]
JNull == JValue("null", <<>>, <<>>, <<>>)
JNum(n) == JValue("num", <<n>>, <<>>, <<>>)
JStr(s) == JValue("str", s, <<>>, <<>>)
JArr(a) == JValue("arr", <<>>, a, <<>>)
JObj(members) == JValue("obj", <<>>, <<>>, members)

\* --------------------------------------------------------------- sanitize
\* text.replace(/(3 backticks)json|(3 backticks)/g, ""): the leftmost match is
\* found, the longer alternative is tried first, the match is deleted and the
\* scan goes on after it.
FenceAt(s, i) == i + 2 <= Len(s) /\ s[i] = BT /\ s[i + 1] = BT /\ s[i + 2] = BT
FenceLen(s, i) == IF i + 3 <= Len(s) /\ s[i + 3] = "json" THEN 4 ELSE 3

RECURSIVE StripFences(_)
StripFences(s) ==
  IF \A i \in 1..Len(s) : ~FenceAt(s, i) THEN s
  ELSE LET i == CHOOSE j \in 1..Len(s) :
                  FenceAt(s, j) /\ \A k \in 1..(j - 1) : ~FenceAt(s, k)
       IN SubSeq(s, 1, i - 1) \o StripFences(SubSeq(s, i + FenceLen(s, i), Len(s)))

\* String.prototype.trim()
RECURSIVE Trim(_)
Trim(s) ==
  IF s = <<>> THEN <<>>
  ELSE IF s[1] \in WhiteSpace THEN Trim(Tail(s))
  ELSE IF s[Len(s)] \in WhiteSpace THEN Trim(SubSeq(s, 1, Len(s) - 1))
  ELSE s

CleanText(text) == Trim(StripFences(text))

\* ------------------------------------------------------------- JSON.parse
ParseFail == [ok |-> FALSE, val |-> JNull, pos |-> 0]
ParseOk(val, pos) == [ok |-> TRUE, val |-> val, pos |-> pos]

RECURSIVE SkipWs(_, _)
SkipWs(s, i) ==
  IF i <= Len(s) /\ s[i] \in WhiteSpace THEN SkipWs(s, i + 1) ELSE i

\* index of the quote closing a string whose content starts at i, 0 if none
\* or if a raw line break comes first
RECURSIVE ClosingQuote(_, _)
ClosingQuote(s, i) ==
  IF i > Len(s) THEN 0
  ELSE IF s[i] = QUOTE THEN i
  ELSE IF s[i] = "\n" THEN 0
  ELSE ClosingQuote(s, i + 1)

ParseString(s, i) ==
  LET j == ClosingQuote(s, i + 1)
  IN IF j = 0 THEN ParseFail ELSE ParseOk(JStr(SubSeq(s, i + 1, j - 1)), j + 1)

RECURSIVE ParseValue(_, _)
RECURSIVE ParseElements(_, _, _)
RECURSIVE ParseMembers(_, _, _)

ParseValue(s, i0) ==
  LET i == SkipWs(s, i0)
  IN IF i > Len(s) THEN ParseFail
     ELSE IF s[i] = "null" THEN ParseOk(JNull, i + 1)
     ELSE IF s[i] \in NumberWords THEN ParseOk(JNum(s[i]), i + 1)
     ELSE IF s[i] = QUOTE THEN ParseString(s, i)
     ELSE IF s[i] = "[" THEN
       LET j == SkipWs(s, i + 1)
       IN IF j <= Len(s) /\ s[j] = "]" THEN ParseOk(JArr(<<>>), j + 1)
          ELSE ParseElements(s, j, <<>>)
     ELSE IF s[i] = "{" THEN
       LET j == SkipWs(s, i + 1)
       IN IF j <= Len(s) /\ s[j] = "}" THEN ParseOk(JObj(<<>>), j + 1)
          ELSE ParseMembers(s, j, <<>>)
     ELSE ParseFail

ParseElements(s, i, acc) ==
  LET e == ParseValue(s, i)
  IN IF ~e.ok THEN ParseFail
     ELSE LET k == SkipWs(s, e.pos)
          IN IF k > Len(s) THEN ParseFail
             ELSE IF s[k] = "," THEN ParseElements(s, k + 1, Append(acc, e.val))
             ELSE IF s[k] = "]" THEN ParseOk(JArr(Append(acc, e.val)), k + 1)
             ELSE ParseFail

ParseMembers(s, i0, acc) ==
  LET i == SkipWs(s, i0)
  IN IF i > Len(s) \/ s[i] # QUOTE THEN ParseFail
     ELSE LET key == ParseString(s, i)
          IN IF ~key.ok THEN ParseFail
             ELSE LET c == SkipWs(s, key.pos)
                  IN IF c > Len(s) \/ s[c] # ":" THEN ParseFail
                     ELSE LET e == ParseValue(s, c + 1)
                          IN IF ~e.ok THEN ParseFail
                             ELSE LET k == SkipWs(s, e.pos)
                                      m == Append(acc, <<key.val.s, e.val>>)
                                  IN IF k > Len(s) THEN ParseFail
                                     ELSE IF s[k] = "," THEN ParseMembers(s, k + 1, m)
                                     ELSE IF s[k] = "}" THEN ParseOk(JObj(m), k + 1)
                                     ELSE ParseFail

\* JSON.parse(text): one value, then nothing but white space
JSONParse(text) ==
  LET r == ParseValue(text, 1)
  IN IF r.ok /\ SkipWs(text, r.pos) > Len(text) THEN r ELSE ParseFail

\* ------------------------------------------------- the handler's filtering
\* profile.dietType values; the first two are the restricted ones
DietTypes == {"vegetarian", "vegan", "omnivore", "keto"}

\* faulty variant: every diet is filtered
IsRestricted_Always(diet) == TRUE

\* line 92: profile.dietType === "vegetarian" || profile.dietType === "vegan"
IsRestricted(diet) == diet = "vegetarian" \/ diet = "vegan"

Undefined == JValue("undefined", <<>>, <<>>, <<>>)

\* r.tags: the value of the last member named tags of an object, undefined
\* on an object without one and on a number, string or array; reading a
\* property of null throws
RECURSIVE Member(_, _)
Member(members, key) ==
  IF members = <<>> THEN Undefined
  ELSE IF members[Len(members)][1] = key THEN members[Len(members)][2]
  ELSE Member(SubSeq(members, 1, Len(members) - 1), key)

TagsThrows(r) == r.t = "null"
TagsOf(r) == IF r.t = "obj" THEN Member(r.m, <<"tags">>) ELSE Undefined

\* tags.includes(word): Array.prototype.includes on an array (strict
\* equality with the string), String.prototype.includes on a string (the
\* word occurs in it); on anything else the call throws
IncludesThrows(tags) == tags.t \notin {"arr", "str"}
Includes(tags, word) ==
  IF tags.t = "arr" THEN \E i \in 1..Len(tags.a) : tags.a[i] = JStr(<<word>>)
  ELSE \E i \in 1..Len(tags.s) : tags.s[i] = word

\* faulty variant: the test for "Vegan" is missing
Keep_VegetarianOnly(r) == Includes(TagsOf(r), "Vegetarian")

\* line 94: (r) => r.tags.includes("Vegetarian") || r.tags.includes("Vegan")
KeepThrows(r) == TagsThrows(r) \/ IncludesThrows(TagsOf(r))
Keep(r) == Includes(TagsOf(r), "Vegetarian") \/ Includes(TagsOf(r), "Vegan")

\* faulty variant: the kept records are stored twice
FilterArray_Twice(a) == SelectSeq(a, Keep) \o SelectSeq(a, Keep)

\* lines 93-95: parsed.filter(...); only an array has filter, and the callback
\* runs on the elements in order
RECURSIVE FilterArray(_)
FilterArray(a) ==
  IF a = <<>> THEN <<>>
  ELSE IF Keep(a[1]) THEN <<a[1]>> \o FilterArray(Tail(a))
  ELSE FilterArray(Tail(a))

FilterThrows(parsed) ==
  parsed.t # "arr" \/ \E i \in 1..Len(parsed.a) : KeepThrows(parsed.a[i])

\* lines 91-96
FilteredThrows(parsed, diet) == IsRestricted(diet) /\ FilterThrows(parsed)
FilteredRecipes(parsed, diet) ==
  IF IsRestricted(diet) THEN JArr(FilterArray(parsed.a)) ELSE parsed

\* line 101: filteredRecipes.length throws on null
LengthThrows(value) == value.t = "null"

\* ------------------------------------------------------------ the handler
ToastSuccess == "Recipes Generated!"
ToastInvalidJSON == "AI returned invalid JSON. Please try again."
ToastFailed == "Failed to generate recipes. Please try again later."

\* What a block did: the value of parsed, whether setRecipes was called and
\* with what, the toasts issued, the setIsGenerating calls, and how control
\* left the block.
Block(parsed, set, value, toasts, gen, end) ==
  [parsed |-> parsed, set |-> set, value |-> value, toasts |-> toasts,
   gen |-> gen, end |-> end]

NotParsed == [ok |-> FALSE, val |-> JNull]

\* line 70: the awaited model call rejects
Rejected == Block(NotParsed, FALSE, JNull, <<>>, <<>>, "throw")

\* lines 71-102: the try block after the await
TryBlock(text, diet) ==
  LET r == JSONParse(CleanText(text))
      parsed == [ok |-> r.ok, val |-> r.val]
  IN IF ~r.ok
       THEN Block(parsed, FALSE, JNull, <<ToastInvalidJSON>>, <<FALSE>>, "return")
     ELSE IF FilteredThrows(r.val, diet)
       THEN Block(parsed, FALSE, JNull, <<>>, <<>>, "throw")
     ELSE LET filtered == FilteredRecipes(r.val, diet)
          IN IF LengthThrows(filtered)
               THEN Block(parsed, TRUE, filtered, <<>>, <<>>, "throw")
               ELSE Block(parsed, TRUE, filtered, <<ToastSuccess>>, <<>>, "end")

\* faulty variant: no catch block
CatchBlock_Rethrow(b) == b

\* lines 103-109
CatchBlock(b) ==
  IF b.end = "throw"
    THEN Block(b.parsed, b.set, b.value, Append(b.toasts, ToastFailed), b.gen, "end")
    ELSE b

\* faulty variant: no finally block
FinallyBlock_Skip(b) == b

\* lines 110-112
FinallyBlock(b) ==
  Block(b.parsed, b.set, b.value, b.toasts, Append(b.gen, FALSE), b.end)

\* ------------------------------------------------------ the model's replies
IdWords == <<"r1", "r2", "r3", "r4">>
TagLists == {<<"Vegan">>, <<"Vegetarian">>, <<"Meat">>}

Strs(words) == [i \in 1..Len(words) |-> JStr(<<words[i]>>)]
Recipe(id, tags) ==
  JObj(<< << <<"id">>, JStr(<<id>>) >>, << <<"tags">>, tags >> >>)

\* the batches the prompt asks for: arrays of records, each with a tags array
Batch(f) == JArr([i \in DOMAIN f |-> Recipe(IdWords[i], JArr(Strs(f[i])))])
Batches == UNION { {Batch(f) : f \in [1..n -> TagLists]} : n \in 0..MaxRecipes }

RECURSIVE Stringify(_)
RECURSIVE StringifyElements(_)
RECURSIVE StringifyMembers(_)
Stringify(value) ==
  CASE value.t = "null" -> <<"null">>
    [] value.t = "num" -> value.s
    [] value.t = "str" -> <<QUOTE>> \o value.s \o <<QUOTE>>
    [] value.t = "arr" -> <<"[">> \o StringifyElements(value.a) \o <<"]">>
    [] value.t = "obj" -> <<"{">> \o StringifyMembers(value.m) \o <<"}">>
StringifyElements(a) ==
  IF a = <<>> THEN <<>>
  ELSE IF Len(a) = 1 THEN Stringify(a[1])
  ELSE Stringify(a[1]) \o <<",">> \o StringifyElements(Tail(a))
StringifyMembers(m) ==
  IF m = <<>> THEN <<>>
  ELSE LET one == <<QUOTE>> \o m[1][1] \o <<QUOTE, ":">> \o Stringify(m[1][2])
       IN IF Len(m) = 1 THEN one ELSE one \o <<",">> \o StringifyMembers(Tail(m))

OpenFence == <<BT, BT, BT, "json", "\n">>
CloseFence == <<"\n", BT, BT, BT>>
Fenced(text) == OpenFence \o text \o CloseFence

\* replies that are valid JSON but not a batch of well-formed records
OddValues ==
  { JNull, JNum("5"), JStr(<<"Vegan">>), JObj(<<>>),
    Recipe("r1", JArr(Strs(<<"Vegan">>))),
    JArr(<<JNull>>), JArr(<<JNum("5")>>),
    JArr(<<JObj(<< << <<"id">>, JStr(<<"r1">>) >> >>)>>),
    JArr(<<Recipe("r1", JStr(<<"Vegan">>))>>),
    JArr(<<Recipe("r1", JArr(Strs(<<"vegan">>)))>>),
    JArr(<<Recipe("r1", JArr(Strs(<<"Meat", "Vegan">>)))>>),
    JArr(<<Recipe("r1", JArr(<<JStr(<<BT, BT, BT, "Vegan">>)>>))>>),
    JArr(<<Recipe("r1", JArr(<<JStr(<<"Vegan">>)>>)),
           Recipe("r2", JArr(<<JStr(<<"Meat", BT, BT, BT, "json">>)>>))>>) }

\* replies that are not JSON, or JSON with text around it
OddTexts ==
  { <<>>, <<"Sorry">>, <<"[">>, <<"[", "null", ",", "]">>,
    <<"Here", " ", "[", "]">>,
    <<" ", "[", " ", "]", "\n">>,
    <<"[", BT, BT, BT, "]">>,
    <<BT, BT, BT, "[", "]", BT, BT, BT>>,
    <<BT, BT, BT, "json", "[", "]", BT, BT, BT, BT>>,
    <<"json", "\n", "[", "]">> }

\* the texts the model call may resolve with: every batch bare, the short
\* batches and the odd values also inside a fence
Responses ==
  {Stringify(b) : b \in Batches \cup OddValues}
    \cup {Fenced(Stringify(b)) : b \in {c \in Batches : Len(c.a) <= 1} \cup OddValues}
    \cup OddTexts

\* ------------------------------------------------------------------- state
VARIABLES
  dietType,      \* profile.dietType, a prop of the component
  recipes,       \* useState<Recipe[]>([])
  isGenerating,  \* useState(false)
  inFlight,      \* generateRecipes calls at the await, the model call pending
  settled,       \* settled model calls whose continuation has yet to run
  last           \* what the attempt that finished last parsed and did

vars == <<dietType, recipes, isGenerating, inFlight, settled, last>>

NoAttempt ==
  [how |-> "none", parsed |-> NotParsed, set |-> FALSE, toasts |-> <<>>,
   fault |-> FALSE]

Init ==
  /\ dietType \in DietTypes
  /\ recipes = JArr(<<>>)
  /\ isGenerating = FALSE
  /\ inFlight = 0
  /\ settled = <<>>
  /\ last = NoAttempt

\* attempts that have started and not finished
Outstanding == inFlight + Len(settled)

\* faulty variant: the button is never disabled
ButtonDisabled_Never == FALSE

\* line 156: <Button onClick={generateRecipes} disabled={isGenerating}>
ButtonDisabled == isGenerating

\* lines 40-70: a click runs generateRecipes up to the await (the model
\* follows at most MaxOutstanding unfinished calls)
ClickGenerate ==
  /\ ~ButtonDisabled
  /\ Outstanding < MaxOutstanding
  /\ isGenerating' = TRUE
  /\ inFlight' = inFlight + 1
  /\ UNCHANGED <<dietType, recipes, settled, last>>

\* line 70: the promise rejects (or result.response.text() throws)
ModelRejects ==
  /\ inFlight > 0
  /\ inFlight' = inFlight - 1
  /\ settled' = Append(settled, [how |-> "rejected", text |-> <<>>])
  /\ UNCHANGED <<dietType, recipes, isGenerating, last>>

\* lines 70-71: the promise resolves and text is the response's text
ModelResolves(text) ==
  /\ inFlight > 0
  /\ inFlight' = inFlight - 1
  /\ settled' = Append(settled, [how |-> "resolved", text |-> text])
  /\ UNCHANGED <<dietType, recipes, isGenerating, last>>

\* lines 71-113 for a settled call
Handle(s, diet) ==
  FinallyBlock(CatchBlock(IF s.how = "rejected" THEN Rejected
                          ELSE TryBlock(s.text, diet)))

\* Handle, tabulated once over every settlement and diet type
Settlements ==
  {[how |-> "rejected", text |-> <<>>]}
    \cup {[how |-> "resolved", text |-> text] : text \in Responses}
Handled == {<<s, diet, Handle(s, diet)>> : s \in Settlements, diet \in DietTypes}
HandledAs(s, diet) == (CHOOSE e \in Handled : e[1] = s /\ e[2] = diet)[3]

\* the continuation of the oldest settled call runs to the end of
\* generateRecipes
Resume ==
  /\ settled # <<>>
  /\ LET b == HandledAs(Head(settled), dietType)
     IN /\ recipes' = IF b.set THEN b.value ELSE recipes
        /\ isGenerating' = IF b.gen = <<>> THEN isGenerating ELSE b.gen[Len(b.gen)]
        /\ last' = [how |-> Head(settled).how, parsed |-> b.parsed, set |-> b.set,
                    toasts |-> b.toasts, fault |-> b.end = "throw"]
  /\ settled' = Tail(settled)
  /\ UNCHANGED <<dietType, inFlight>>

Next ==
  \/ ClickGenerate
  \/ ModelRejects
  \/ \E text \in Responses : ModelResolves(text)
  \/ Resume

Spec == Init /\ [][Next]_vars

\* every model call settles, and the continuation of a settled call is run
ModelSettles == ModelRejects \/ \E text \in Responses : ModelResolves(text)
FairSpec == Spec /\ WF_vars(ModelSettles) /\ WF_vars(Resume)

\* -------------------------------------------------------------- properties
Finished == last.how # "none"
Resolved == last.how = "resolved"
Succeeded == Finished /\ last.toasts = <<ToastSuccess>>

\* the record has the exact tag in its tags array
HasTag(r, tag) ==
  /\ r.t = "obj"
  /\ \E i \in 1..Len(r.m) :
       /\ r.m[i][1] = <<"tags">>
       /\ r.m[i][2].t = "arr"
       /\ \E j \in 1..Len(r.m[i][2].a) : r.m[i][2].a[j] = JStr(<<tag>>)
VegetarianOrVegan(r) == HasTag(r, "Vegetarian") \/ HasTag(r, "Vegan")

\* a JSON array of recipe records: objects with one tags member, an array of
\* strings
IsRecipeRecord(r) ==
  /\ r.t = "obj"
  /\ Cardinality({i \in 1..Len(r.m) : r.m[i][1] = <<"tags">>}) = 1
  /\ \A i \in 1..Len(r.m) :
       r.m[i][1] = <<"tags">> =>
         /\ r.m[i][2].t = "arr"
         /\ \A j \in 1..Len(r.m[i][2].a) : r.m[i][2].a[j].t = "str"
IsRecipeArray(value) ==
  value.t = "arr" /\ \A i \in 1..Len(value.a) : IsRecipeRecord(value.a[i])

\* s is t with some elements left out
IsSubsequence(s, t) ==
  \E f \in [1..Len(s) -> 1..Len(t)] :
    /\ \A i, j \in 1..Len(s) : i < j => f[i] < f[j]
    /\ \A i \in 1..Len(s) : s[i] = t[f[i]]

\* C1: after a successful generateRecipes with a vegan profile, every stored
\* recipe has the exact tag "Vegan" (a record tagged only "Vegetarian" is
\* never in the result).
C1_VeganOnlyVegan ==
  (Succeeded /\ dietType = "vegan" /\ IsRecipeArray(last.parsed.val)) =>
    /\ recipes.t = "arr"
    /\ \A i \in 1..Len(recipes.a) : HasTag(recipes.a[i], "Vegan")

\* C2: for a valid JSON array of recipe records and a vegetarian profile, the
\* attempt succeeds and stores exactly the parsed records tagged "Vegetarian"
\* or "Vegan", in their original order.
C2_VegetarianFilter ==
  (Resolved /\ dietType = "vegetarian" /\ last.parsed.ok /\ IsRecipeArray(last.parsed.val)) =>
    /\ last.toasts = <<ToastSuccess>>
    /\ recipes = JArr(SelectSeq(last.parsed.val.a, VegetarianOrVegan))
C2_Witness ==
  /\ Resolved /\ dietType = "vegetarian" /\ last.parsed.ok
  /\ IsRecipeArray(last.parsed.val)
  /\ Len(last.parsed.val.a) = 2
  /\ HasTag(last.parsed.val.a[1], "Vegan")
  /\ HasTag(last.parsed.val.a[2], "Meat")
  /\ recipes = JArr(<<last.parsed.val.a[1]>>)

\* C3: for a diet type other than vegetarian and vegan, a successful
\* generateRecipes stores the parsed value unfiltered, and every parsed array
\* is a success.
C3_UnrestrictedKeepsAll ==
  (Resolved /\ dietType \notin {"vegetarian", "vegan"}) =>
    /\ Succeeded => recipes = last.parsed.val
    /\ (last.parsed.ok /\ last.parsed.val.t = "arr") => Succeeded
C3_Witness ==
  /\ Succeeded /\ dietType = "omnivore"
  /\ IsRecipeArray(last.parsed.val)
  /\ Len(recipes.a) = 2
  /\ ~VegetarianOrVegan(recipes.a[1])
  /\ VegetarianOrVegan(recipes.a[2])

\* C4: an attempt that ends in failure (no success toast) leaves recipes at
\* the value it had before the attempt.
C4_FailureKeepsRecipes ==
  [][(Len(settled') < Len(settled) /\ last'.toasts # <<ToastSuccess>>)
       => recipes' = recipes]_vars

\* C5: a response that is valid JSON but not an array ends with an error
\* toast, without a success toast, and is not stored in recipes.
C5_NonArrayIsError ==
  (Resolved /\ last.parsed.ok /\ last.parsed.val.t # "arr") =>
    /\ last.toasts \in {<<ToastInvalidJSON>>, <<ToastFailed>>}
    /\ ~last.set
    /\ recipes.t = "arr"

\* the text without its leading and trailing fence markers
DropLeadingFence(s) ==
  IF Len(s) >= 4 /\ SubSeq(s, 1, 4) = <<BT, BT, BT, "json">> THEN SubSeq(s, 5, Len(s))
  ELSE IF Len(s) >= 3 /\ SubSeq(s, 1, 3) = <<BT, BT, BT>> THEN SubSeq(s, 4, Len(s))
  ELSE s
DropTrailingFence(s) ==
  IF Len(s) >= 3 /\ SubSeq(s, Len(s) - 2, Len(s)) = <<BT, BT, BT>>
    THEN SubSeq(s, 1, Len(s) - 3)
    ELSE s
Unfenced(text) == DropTrailingFence(DropLeadingFence(Trim(text)))

\* C6: sanitizing removes only the leading and trailing fence markers, so
\* the handler parses a response to what its text without those markers
\* parses to (same value or same failure).
C6_FenceStrippingTransparent ==
  [][(Len(settled') < Len(settled) /\ Head(settled).how = "resolved") =>
       LET r == JSONParse(Unfenced(Head(settled).text))
       IN last'.parsed = [ok |-> r.ok, val |-> r.val]]_vars

\* C7: what a generateRecipes attempt stores in recipes is a subsequence of
\* the batch parsed from its response: the parsed records, unmodified, in
\* the same relative order, none added or duplicated.
C7_StoredIsSubsequence ==
  (Finished /\ last.set) =>
    IF last.parsed.val.t = "arr"
      THEN recipes.t = "arr" /\ IsSubsequence(recipes.a, last.parsed.val.a)
      ELSE recipes = last.parsed.val
C7_Witness ==
  /\ Finished /\ last.set /\ IsRestricted(dietType)
  /\ last.parsed.val.t = "arr" /\ recipes.t = "arr"
  /\ Len(last.parsed.val.a) = 2
  /\ recipes.a = <<last.parsed.val.a[2]>>

\* C8: every finished attempt issued exactly one toast, one of the three, and
\* left no exception uncaught; the success toast is issued only by an attempt
\* that called setRecipes.
C8_OneToastPerAttempt ==
  Finished =>
    /\ Len(last.toasts) = 1
    /\ last.toasts[1] \in {ToastSuccess, ToastInvalidJSON, ToastFailed}
    /\ ~last.fault
    /\ Succeeded => last.set
C8_Witness ==
  /\ Resolved /\ last.toasts = <<ToastFailed>> /\ ~last.fault
  /\ last.parsed.ok

\* C9 as stated: while a model call is outstanding nothing prevents a second
\* trigger, i.e. the Generate button is enabled.
C9_SecondTriggerPossible == Outstanding > 0 => ~ButtonDisabled

\* C9 amended: the Generate button is disabled while a model call is
\* outstanding, so at most one call is in flight at any time.
C9_SingleFlight ==
  /\ Outstanding <= 1
  /\ Outstanding > 0 => ButtonDisabled
C9_Witness == inFlight = 1 /\ ButtonDisabled /\ Finished

\* C10: isGenerating is true exactly while a model call is outstanding, and
\* every attempt resets it to false by whichever exit it takes.
C10_IsGeneratingTracksCall ==
  /\ [](isGenerating <=> Outstanding > 0)
  /\ isGenerating ~> ~isGenerating
C10_Witness ==
  /\ ~isGenerating /\ Outstanding = 0
  /\ last.toasts = <<ToastInvalidJSON>>
====
